---- MODULE Spec2Model ----
(***************************************************************************)
(* The colour converter of pkg-lab1: the conversion library                *)
(* (src/color_models.py) and the synchronization pass that the Streamlit   *)
(* script (src/app.py) runs after every widget callback.                   *)
(*                                                                         *)
(* Numbers.  The program computes in binary floating point.  The model     *)
(* computes the same expressions exactly: the HSV conversions in rational  *)
(* arithmetic, the XYZ conversions in decimal fixed point.  TLC's integers *)
(* are 32 bits wide, so a fixed-point number is a record [l, e]: l is a    *)
(* little-endian sequence of limbs in base 10^4 and e the number of limbs  *)
(* after the point; its value is (SUM l[i] * Base^(i-1)) / Base^e.         *)
(* Rounding is Python's round(): to nearest, ties to even.  The two sRGB   *)
(* transfer functions are irrational; they are tabulated to 16 decimals    *)
(* (the resolution of a double).                                           *)
(*                                                                         *)
(* Where the exact value of an expression is a tie (k + 1/2) the double    *)
(* the program rounds may lie a unit in the last place to either side, and *)
(* the program's integer may then be the other neighbour of the tie.  The  *)
(* model takes the even neighbour.  Every state reachable within the       *)
(* bounds below is the state the program computes; with longer edit        *)
(* sequences a derived channel or hue can differ by 1 at such a tie        *)
(* (h = 200, s = 100, v = 15: g = 25.5 exactly, 25 in the program).        *)
(***************************************************************************)
EXTENDS Integers, Sequences, FiniteSets

VARIABLES
  r, g, b,          \* st.session_state.r/g/b: 8-bit sRGB channels
  h, s, v,          \* st.session_state.h/s/v: degrees, percent, percent
  X, Y, Z,          \* st.session_state.X/Y/Z, in units of 10^-4
  hex,              \* st.session_state.hex, a sequence of characters
  source_model,     \* st.session_state.source_model
  clip_warning,     \* the pass's local clip_warning when the pass ends
  input,            \* history: the session values the last pass started from
  before,           \* history: the state before the last step
  edits,            \* number of edits made so far
  fn, arg, ret, pc  \* a library function applied on its own (SpecFn)

vars == <<r, g, b, h, s, v, X, Y, Z, hex, source_model, clip_warning,
          input, before, edits, fn, arg, ret, pc>>

-----------------------------------------------------------------------------
(* Bounds of the model *)

MaxEdits == 2
MaxHexLen == 6

-----------------------------------------------------------------------------
(* Fixed-point arithmetic *)

Base == 10 ^ 4

Zeros(n) == [i \in 1..n |-> 0]

At(l, i) == IF i >= 1 /\ i <= Len(l) THEN l[i] ELSE 0

Max2(a, c) == IF a >= c THEN a ELSE c

Min2(a, c) == IF a <= c THEN a ELSE c

RECURSIVE Carry(_, _)
Carry(l, c) ==
  IF l = <<>> THEN <<c>>
  ELSE LET t == Head(l) + c
       IN  <<t % Base>> \o Carry(Tail(l), t \div Base)

RECURSIVE Trim(_)
Trim(l) ==
  IF Len(l) > 1 /\ l[Len(l)] = 0 THEN Trim(SubSeq(l, 1, Len(l) - 1)) ELSE l

\* every limb but the last in 0..Base-1; the last one carries the sign
Norm(l) == Trim(Carry(l \o <<0>>, 0))

Fix(n, e) == [l |-> Norm(Zeros(e) \o <<n>>), e |-> e]

Sign(l) ==
  IF l[Len(l)] < 0 THEN -1
  ELSE IF \A i \in 1..Len(l) : l[i] = 0 THEN 0 ELSE 1

\* the limbs of x with e limbs after the point, e >= x.e
Shift(x, e) == Zeros(e - x.e) \o x.l

CmpLimbs(a, c) ==
  Sign(Norm([i \in 1..Max2(Len(a), Len(c)) |-> At(a, i) - At(c, i)]))

\* -1, 0, 1 as x < y, x = y, x > y
Cmp(x, y) == CmpLimbs(Shift(x, Max2(x.e, y.e)), Shift(y, Max2(x.e, y.e)))

\* x * k for an integer k, |k| <= Base
Scale(x, k) == [l |-> Norm([i \in 1..Len(x.l) |-> x.l[i] * k]), e |-> x.e]

\* x * 100.0 and x / 100.0
Times100(x) == Scale(x, 100)

Div100(x) == [l |-> Norm([i \in 1..Len(x.l) |-> x.l[i] * 100]), e |-> x.e + 1]

\* the integer part of x >= 0 (below 2^31) and its fractional part
IntPart(x) ==
  LET n == Len(x.l) - x.e
  IN  IF n <= 0 THEN 0
      ELSE IF n = 1 THEN x.l[x.e + 1]
      ELSE x.l[x.e + 1] + Base * x.l[x.e + 2]
           + (IF n >= 3 THEN Base * Base * x.l[x.e + 3] ELSE 0)

FracPart(x) ==
  IF x.e = 0 THEN Fix(0, 0)
  ELSE [l |-> SubSeq(x.l \o Zeros(x.e), 1, x.e), e |-> x.e]

Half == [l |-> <<Base \div 2>>, e |-> 1]

\* ip + c/2 rounded, for c the comparison of the fractional part with 1/2
RoundUp(ip, c) == IF c > 0 \/ (c = 0 /\ ip % 2 = 1) THEN ip + 1 ELSE ip

\* int(round(x)) for x >= 0
RoundFix(x) == RoundUp(IntPart(x), Cmp(FracPart(x), Half))

\* int(round(n / d)) for integers n >= 0, d > 0
RoundDiv(n, d) ==
  LET q == n \div d
      m == n % d
  IN  IF 2 * m > d \/ (2 * m = d /\ q % 2 = 1) THEN q + 1 ELSE q

Abs(n) == IF n < 0 THEN -n ELSE n

-----------------------------------------------------------------------------
(* src/color_models.py *)

\* the matrices of IEC 61966-2-1, entries in units of 10^-8
SRGB_TO_XYZ ==
  << <<41245640, 35757610, 18043750>>,
     <<21267290, 71515220,  7217500>>,
     << 1933390, 11919200, 95030410>> >>

XYZ_TO_SRGB ==
  << <<324045420, -153713850, -49853140>>,
     <<-96926600,  187601080,   4155600>>,
     <<  5564340,  -20402590, 105722520>> >>

ZeroFix == Fix(0, 0)

OneFix == Fix(1, 0)

clamp(value, min_value, max_value) ==
  IF value < min_value THEN min_value
  ELSE IF value > max_value THEN max_value
  ELSE value

clampFix(value, min_value, max_value) ==
  IF Cmp(value, min_value) < 0 THEN min_value
  ELSE IF Cmp(value, max_value) > 0 THEN max_value
  ELSE value

\* _srgb_to_linear(c / 255.0) for c = 0..255, to 16 decimals: c / 12.92 up to
\* c = 10 (c / 255 <= 0.04045), ((c / 255 + 0.055) / 1.055) ^ 2.4 above
SrgbToLinearTab ==
  <<
     <<0, 0, 0, 0, 0>>, <<5488, 6983, 352, 3, 0>>, <<977, 3967, 705, 6, 0>>,
     <<6465, 950, 1058, 9, 0>>, <<1953, 7934, 1410, 12, 0>>, <<7442, 4917, 1763, 15, 0>>,
     <<2930, 1901, 2116, 18, 0>>, <<8419, 8884, 2468, 21, 0>>, <<3907, 5868, 2821, 24, 0>>,
     <<9395, 2851, 3174, 27, 0>>, <<4884, 9835, 3526, 30, 0>>, <<8992, 5763, 4653, 33, 0>>,
     <<474, 7324, 7650, 36, 0>>, <<4963, 7018, 2471, 40, 0>>, <<4103, 2037, 9144, 43, 0>>,
     <<6937, 3480, 7695, 47, 0>>, <<3384, 6702, 8151, 51, 0>>, <<2027, 1624, 539, 56, 0>>,
     <<8571, 3022, 4883, 60, 0>>, <<5945, 792, 1209, 65, 0>>, <<2654, 187, 9541, 69, 0>>,
     <<2262, 2043, 9903, 74, 0>>, <<3850, 2985, 2319, 80, 0>>, <<693, 5618, 6812, 85, 0>>,
     <<2208, 8702, 3405, 91, 0>>, <<2378, 7320, 2121, 97, 0>>, <<6269, 3029, 2982, 103, 0>>,
     <<4882, 4006, 6009, 109, 0>>, <<7439, 5179, 1224, 116, 0>>, <<9159, 8356, 8648, 122, 0>>,
     <<1730, 2342, 8303, 129, 0>>, <<2897, 3047, 208, 137, 0>>, <<925, 3596, 4384, 144, 0>>,
     <<9127, 4422, 851, 152, 0>>, <<5096, 3365, 9629, 159, 0>>, <<8874, 5752, 737, 168, 0>>,
     <<3841, 4488, 4195, 176, 0>>, <<3797, 128, 22, 185, 0>>, <<9357, 956, 8236, 193, 0>>,
     <<6524, 3056, 8856, 202, 0>>, <<36, 376, 1901, 212, 0>>, <<3874, 4793, 7388, 221, 0>>,
     <<1104, 6178, 5336, 231, 0>>, <<5047, 2448, 5763, 241, 0>>, <<3616, 9627, 8685, 251, 0>>,
     <<8499, 1894, 4122, 262, 0>>, <<749, 1639, 2089, 273, 0>>, <<4208, 9504, 2603, 284, 0>>,
     <<8088, 4437, 5683, 295, 0>>, <<9936, 3732, 1344, 307, 0>>, <<115, 3073, 9603, 318, 0>>,
     <<8850, 6570, 476, 331, 0>>, <<6822, 6808, 3980, 343, 0>>, <<203, 4875, 131, 356, 0>>,
     <<1000, 401, 8945, 368, 0>>, <<3465, 1595, 437, 382, 0>>, <<7328, 5276, 4623, 395, 0>>,
     <<8532, 6906, 1519, 409, 0>>, <<8097, 620, 1141, 423, 0>>, <<9734, 9256, 3502, 437, 0>>,
     <<6755, 4385, 8620, 451, 0>>, <<8801, 6336, 6508, 466, 0>>, <<8894, 4226, 7182, 481, 0>>,
     <<1272, 5984, 656, 497, 0>>, <<432, 8374, 6945, 512, 0>>, <<1803, 7023, 6064, 528, 0>>,
     <<4424, 6442, 8027, 544, 0>>, <<6001, 49, 2849, 561, 0>>, <<672, 191, 543, 578, 0>>,
     <<9812, 8162, 1123, 595, 0>>, <<6176, 4231, 4605, 612, 0>>, <<1677, 7653, 1001, 630, 0>>,
     <<9058, 6692, 326, 648, 0>>, <<7729, 8643, 2593, 666, 0>>, <<4002, 9844, 7816, 684, 0>>,
     <<5959, 5696, 6009, 703, 0>>, <<3175, 682, 7185, 722, 0>>, <<1496, 8380, 1356, 742, 0>>,
     <<3078, 1481, 8538, 761, 0>>, <<1863, 1805, 8742, 781, 0>>, <<4683, 314, 1982, 802, 0>>,
     <<8148, 7129, 8270, 822, 0>>, <<1488, 1544, 7621, 843, 0>>, <<5497, 2036, 46, 865, 0>>,
     <<7729, 6285, 5558, 886, 0>>, <<4077, 1183, 4171, 908, 0>>, <<6874, 2846, 5896, 930, 0>>,
     <<9647, 6630, 746, 953, 0>>, <<8624, 7141, 8734, 975, 0>>, <<1139, 8247, 9872, 998, 0>>,
     <<1013, 3088, 4173, 1022, 0>>, <<1042, 4091, 1648, 1046, 0>>, <<2676, 2978, 2310, 1070, 0>>,
     <<2993, 778, 6171, 1094, 0>>, <<9056, 7836, 3242, 1119, 0>>, <<9737, 3826, 3537, 1144, 0>>,
     <<5108, 7758, 7066, 1169, 0>>, <<3456, 7988, 3842, 1195, 0>>, <<6018, 2229, 3877, 1221, 0>>,
     <<9505, 7560, 7181, 1247, 0>>, <<6474, 435, 3768, 1274, 0>>, <<3643, 6690, 3647, 1301, 0>>,
     <<8179, 1553, 6832, 1328, 0>>, <<2056, 9655, 3332, 1356, 0>>, <<4518, 5032, 3161, 1384, 0>>,
     <<2716, 1140, 6329, 1412, 0>>, <<577, 858, 2847, 1441, 0>>, <<5950, 6497, 2726, 1470, 0>>,
     <<6085, 9810, 5978, 1499, 0>>, <<1502, 1996, 2615, 1529, 0>>, <<8273, 3707, 2646, 1559, 0>>,
     <<8804, 5060, 6083, 1589, 0>>, <<1110, 5639, 2937, 1620, 0>>, <<6676, 4501, 3219, 1651, 0>>,
     <<6907, 189, 6940, 1682, 0>>, <<8225, 732, 4110, 1714, 0>>, <<5850, 3655, 4740, 1746, 0>>,
     <<6291, 5983, 8841, 1778, 0>>, <<8601, 4249, 6424, 1811, 0>>, <<4409, 4500, 7499, 1844, 0>>,
     <<6778, 2300, 2077, 1878, 0>>, <<7914, 2740, 168, 1912, 0>>, <<5757, 441, 1783, 1946, 0>>,
     <<9488, 9559, 6931, 1980, 0>>, <<3971, 3794, 5625, 2015, 0>>, <<3169, 6390, 7873, 2050, 0>>,
     <<2557, 145, 3687, 2086, 0>>, <<551, 7414, 3075, 2122, 0>>, <<8992, 113, 6050, 2158, 0>>,
     <<2692, 9729, 2619, 2195, 0>>, <<8084, 7316, 2795, 2232, 0>>, <<983, 3510, 6587, 2269, 0>>,
     <<3489, 8524, 4004, 2307, 0>>, <<51, 2161, 5058, 2345, 0>>, <<2709, 3812, 9757, 2383, 0>>,
     <<5547, 2465, 8112, 2422, 0>>, <<8354, 6707, 132, 2462, 0>>, <<9533, 4729, 5828, 2501, 0>>,
     <<8267, 4330, 5209, 2541, 0>>, <<5958, 2921, 8285, 2581, 0>>, <<6960, 7529, 5065, 2622, 0>>,
     <<8623, 4802, 5560, 2663, 0>>, <<658, 1013, 9779, 2704, 0>>, <<3845, 2060, 7731, 2746, 0>>,
     <<8103, 3476, 9426, 2788, 0>>, <<9920, 429, 4874, 2831, 0>>, <<9174, 7726, 4083, 2874, 0>>,
     <<5359, 9817, 7064, 2917, 0>>, <<3209, 798, 3827, 2961, 0>>, <<7764, 4415, 4379, 3005, 0>>,
     <<8861, 4069, 8731, 3049, 0>>, <<5084, 2817, 6892, 3094, 0>>, <<7175, 3375, 8871, 3139, 0>>,
     <<917, 8125, 4677, 3185, 0>>, <<9507, 9112, 4320, 3231, 0>>, <<5421, 8056, 7809, 3277, 0>>,
     <<1792, 6346, 5153, 3324, 0>>, <<3302, 5048, 6361, 3371, 0>>, <<6608, 4908, 1442, 3419, 0>>,
     <<295, 6355, 405, 3467, 0>>, <<4392, 9500, 3259, 3515, 0>>, <<9434, 4145, 14, 3564, 0>>,
     <<5095, 9783, 677, 3613, 0>>, <<8394, 5598, 5259, 3662, 0>>, <<1490, 474, 3768, 3712, 0>>,
     <<9062, 2990, 6212, 3762, 0>>, <<5299, 1432, 2601, 3813, 0>>, <<489, 3787, 2943, 3864, 0>>,
     <<7231, 7749, 7247, 3915, 0>>, <<6268, 725, 5523, 3967, 0>>, <<1956, 9832, 7777, 4019, 0>>,
     <<7366, 1901, 4021, 4072, 0>>, <<9036, 3483, 4261, 4125, 0>>, <<1372, 848, 8507, 4178, 0>>,
     <<715, 9986, 6766, 4232, 0>>, <<9066, 6613, 9049, 4286, 0>>, <<7488, 6174, 5363, 4341, 0>>,
     <<9187, 3840, 5717, 4396, 0>>, <<2277, 4516, 119, 4452, 0>>, <<2234, 2838, 8578, 4507, 0>>,
     <<4045, 3180, 1102, 4564, 0>>, <<4068, 9654, 7699, 4620, 0>>, <<1588, 6112, 8379, 4677, 0>>,
     <<93, 6148, 3149, 4735, 0>>, <<8267, 3100, 2018, 4793, 0>>, <<704, 56, 4994, 4851, 0>>,
     <<8355, 9847, 2084, 4910, 0>>, <<8704, 5060, 3299, 4969, 0>>, <<5684, 8032, 8645, 5028, 0>>,
     <<9336, 854, 8132, 5088, 0>>, <<5213, 5376, 1766, 5149, 0>>, <<3541, 3204, 9557, 5209, 0>>,
     <<8130, 5705, 1512, 5271, 0>>, <<5050, 4010, 7640, 5332, 0>>, <<1070, 9012, 7948, 5394, 0>>,
     <<1865, 1370, 2446, 5457, 0>>, <<9999, 1511, 1140, 5520, 0>>, <<2677, 9634, 4038, 5583, 0>>,
     <<9289, 5704, 1150, 5647, 0>>, <<8729, 9464, 2482, 5711, 0>>, <<6505, 429, 8044, 5775, 0>>,
     <<1639, 7891, 7841, 5840, 0>>, <<3368, 919, 1884, 5906, 0>>, <<7632, 8363, 178, 5972, 0>>,
     <<3375, 8855, 2733, 6038, 0>>, <<8646, 807, 9557, 6104, 0>>, <<6508, 2419, 656, 6172, 0>>,
     <<759, 1675, 6039, 6239, 0>>, <<1467, 6346, 5713, 6307, 0>>, <<324, 3994, 9687, 6375, 0>>,
     <<5821, 1970, 7968, 6444, 0>>, <<8240, 7419, 563, 6514, 0>>, <<4482, 7279, 7481, 6583, 0>>,
     <<2719, 8282, 8729, 6653, 0>>, <<6873, 6957, 4315, 6724, 0>>, <<937, 9633, 4246, 6795, 0>>,
     <<3132, 2435, 8531, 6866, 0>>, <<9898, 1291, 7176, 6938, 0>>, <<9731, 1932, 189, 7011, 0>>,
     <<6867, 9891, 7577, 7083, 0>>, <<4805, 506, 9350, 7156, 0>>, <<9689, 8921, 5512, 7230, 0>>,
     <<3534, 90, 6074, 7304, 0>>, <<7308, 8772, 1040, 7379, 0>>, <<3872, 9540, 420, 7454, 0>>,
     <<778, 6776, 4221, 7529, 0>>, <<2922, 4675, 2450, 7605, 0>>, <<5069, 7247, 5114, 7681, 0>>,
     <<4234, 8317, 2221, 7758, 0>>, <<1932, 1526, 3779, 7835, 0>>, <<6300, 332, 9794, 7912, 0>>,
     <<4087, 8014, 273, 7991, 0>>, <<2514, 7669, 5225, 8069, 0>>, <<1012, 2216, 4657, 8148, 0>>,
     <<2833, 4396, 8575, 8227, 0>>, <<6546, 6774, 6987, 8307, 0>>, <<7398, 1740, 9901, 8387, 0>>,
     <<8577, 1509, 7323, 8468, 0>>, <<2336, 8124, 9260, 8549, 0>>, <<1020, 3454, 5721, 8631, 0>>,
     <<7970, 9198, 6711, 8713, 0>>, <<8317, 6887, 2239, 8796, 0>>, <<9664, 7881, 2311, 8879, 0>>,
     <<2666, 3374, 6935, 8962, 0>>, <<1491, 4391, 6117, 9046, 0>>, <<4189, 1793, 9865, 9130, 0>>,
     <<2945, 6277, 8185, 9215, 0>>, <<4234, 8375, 1085, 9301, 0>>, <<8878, 8457, 8572, 9386, 0>>,
     <<1996, 6733, 653, 9473, 0>>, <<2860, 3249, 7335, 9559, 0>>, <<4651, 7894, 8624, 9646, 0>>,
     <<4124, 398, 4529, 9734, 0>>, <<1171, 333, 5055, 9822, 0>>, <<8297, 7113, 209, 9911, 0>>,
     <<0, 0, 0, 0, 1>>
  >>

srgb_to_linear(c) == [l |-> Trim(SrgbToLinearTab[c + 1]), e |-> 4]

\* _linear_to_srgb is increasing, so round(_linear_to_srgb(c) * 255.0) is the
\* number of the last step c has reached: step k is the c, to 16 decimals, at
\* which _linear_to_srgb(c) * 255.0 = k - 0.5 (12.92 * c up to c = 0.0031308,
\* 1.055 * c ^ (1 / 2.4) - 0.055 above)
LinearToSrgbSteps ==
  <<
     <<7744, 3491, 5176, 1, 0>>, <<3233, 475, 5529, 4, 0>>, <<8721, 7458, 5881, 7, 0>>,
     <<4209, 4442, 6234, 10, 0>>, <<9698, 1425, 6587, 13, 0>>, <<5186, 8409, 6939, 16, 0>>,
     <<674, 5393, 7292, 19, 0>>, <<6163, 2376, 7645, 22, 0>>, <<1651, 9360, 7997, 25, 0>>,
     <<7140, 6343, 8350, 28, 0>>, <<4305, 904, 8830, 31, 0>>, <<5812, 9349, 925, 35, 0>>,
     <<964, 4933, 4831, 38, 0>>, <<1049, 8030, 574, 42, 0>>, <<5284, 2740, 8183, 45, 0>>,
     <<2740, 7250, 7683, 49, 0>>, <<8064, 4159, 9102, 53, 0>>, <<409, 784, 2465, 58, 0>>,
     <<9141, 9426, 7796, 62, 0>>, <<4986, 7633, 5122, 67, 0>>, <<1289, 8422, 4466, 72, 0>>,
     <<6679, 498, 5853, 77, 0>>, <<7623, 8454, 9304, 82, 0>>, <<6985, 2951, 4845, 88, 0>>,
     <<2661, 891, 2497, 94, 0>>, <<8690, 5574, 2282, 100, 0>>, <<9736, 6851, 4223, 106, 0>>,
     <<8583, 1258, 8342, 112, 0>>, <<5221, 2148, 4659, 119, 0>>, <<5119, 9812, 3195, 126, 0>>,
     <<3490, 1595, 3973, 133, 0>>, <<1645, 2002, 7011, 140, 0>>, <<864, 2800, 2330, 148, 0>>,
     <<8733, 3113, 9950, 155, 0>>, <<2337, 9516, 9890, 163, 0>>, <<2341, 6113, 2171, 172, 0>>,
     <<1564, 4625, 6811, 180, 0>>, <<1341, 4463, 3829, 189, 0>>, <<8669, 2801, 3244, 198, 0>>,
     <<6855, 4648, 5074, 207, 0>>, <<2162, 2909, 9338, 216, 0>>, <<8721, 8449, 6053, 226, 0>>,
     <<3795, 157, 5239, 236, 0>>, <<5320, 4995, 6911, 246, 0>>, <<3458, 8059, 1088, 257, 0>>,
     <<7798, 2626, 7788, 267, 0>>, <<1693, 208, 7027, 278, 0>>, <<5100, 593, 8822, 289, 0>>,
     <<7209, 1897, 3190, 301, 0>>, <<29, 604, 148, 313, 0>>, <<4022, 1605, 9712, 324, 0>>,
     <<6811, 8244, 1898, 337, 0>>, <<5879, 2352, 6724, 349, 0>>, <<6164, 4284, 4204, 362, 0>>,
     <<3331, 2956, 4355, 375, 0>>, <<3516, 5877, 7192, 388, 0>>, <<218, 9184, 2731, 402, 0>>,
     <<9029, 7670, 988, 416, 0>>, <<794, 4821, 1978, 430, 0>>, <<3809, 2835, 5716, 444, 0>>,
     <<5574, 2660, 2217, 459, 0>>, <<4628, 4016, 1496, 474, 0>>, <<2930, 5422, 3568, 489, 0>>,
     <<9249, 4221, 8448, 504, 0>>, <<3972, 6608, 6150, 520, 0>>, <<5734, 7647, 6689, 536, 0>>,
     <<238, 1301, 80, 553, 0>>, <<1629, 448, 6336, 569, 0>>, <<6735, 6907, 5471, 586, 0>>,
     <<2508, 1458, 7501, 603, 0>>, <<6947, 3858, 2438, 621, 0>>, <<3792, 2867, 297, 639, 0>>,
     <<1246, 6261, 1091, 657, 0>>, <<4980, 853, 4835, 675, 0>>, <<5661, 2512, 1541, 694, 0>>,
     <<1214, 6178, 1223, 713, 0>>, <<4054, 5878, 3895, 732, 0>>, <<3467, 4746, 9570, 751, 0>>,
     <<3343, 5035, 8261, 771, 0>>, <<5450, 8134, 9981, 791, 0>>, <<8404, 4583, 4744, 812, 0>>,
     <<2516, 4088, 2562, 833, 0>>, <<670, 5532, 3448, 854, 0>>, <<5368, 6992, 7415, 875, 0>>,
     <<2106, 5753, 4476, 897, 0>>, <<9198, 8316, 4643, 919, 0>>, <<4184, 418, 7930, 941, 0>>,
     <<6950, 7036, 4347, 964, 0>>, <<9669, 2406, 3909, 987, 0>>, <<3678, 32, 6627, 1010, 0>>,
     <<3402, 2695, 2513, 1034, 0>>, <<7427, 2468, 1580, 1058, 0>>, <<6810, 726, 3840, 1082, 0>>,
     <<736, 8155, 9304, 1106, 0>>, <<9600, 4761, 7986, 1131, 0>>, <<5601, 9887, 9896, 1156, 0>>,
     <<934, 2214, 5048, 1182, 0>>, <<3661, 9775, 3451, 1208, 0>>, <<1324, 9966, 5119, 1234, 0>>,
     <<2393, 9551, 63, 1261, 0>>, <<5594, 4674, 8295, 1287, 0>>, <<7205, 867, 9826, 1314, 0>>,
     <<6372, 3058, 4667, 1342, 0>>, <<8510, 5579, 2830, 1370, 0>>, <<6851, 2176, 4327, 1398, 0>>,
     <<2183, 6015, 9168, 1426, 0>>, <<856, 9690, 7365, 1455, 0>>, <<1087, 5232, 8930, 1484, 0>>,
     <<7627, 4115, 3873, 1514, 0>>, <<4832, 7266, 2205, 1544, 0>>, <<8189, 5067, 3938, 1574, 0>>,
     <<4337, 7368, 9082, 1604, 0>>, <<9634, 3488, 7649, 1635, 0>>, <<7303, 2228, 9649, 1666, 0>>,
     <<3205, 1872, 5093, 1698, 0>>, <<268, 196, 3992, 1730, 0>>, <<1625, 4474, 6356, 1762, 0>>,
     <<2476, 1485, 2197, 1795, 0>>, <<732, 7518, 1524, 1828, 0>>, <<6456, 8377, 4349, 1861, 0>>,
     <<137, 9391, 682, 1895, 0>>, <<9845, 5412, 534, 1929, 0>>, <<7269, 831, 3915, 1963, 0>>,
     <<2689, 9574, 834, 1998, 0>>, <<8906, 5111, 1304, 2033, 0>>, <<4150, 465, 5334, 2068, 0>>,
     <<3997, 8210, 2933, 2104, 0>>, <<2324, 482, 4114, 2140, 0>>, <<1322, 8981, 8884, 2176, 0>>,
     <<587, 4977, 7256, 2213, 0>>, <<5327, 9314, 9238, 2250, 0>>, <<3691, 2417, 4842, 2288, 0>>,
     <<3244, 4293, 4076, 2326, 0>>, <<6629, 4538, 6951, 2364, 0>>, <<6400, 2342, 3477, 2403, 0>>,
     <<9082, 6491, 3663, 2442, 0>>, <<8455, 5374, 7520, 2481, 0>>, <<8088, 6985, 5057, 2521, 0>>,
     <<3137, 8929, 6284, 2561, 0>>, <<1433, 8424, 1211, 2602, 0>>, <<3864, 2307, 9848, 2642, 0>>,
     <<4082, 7038, 2203, 2684, 0>>, <<7534, 8702, 8287, 2725, 0>>, <<9852, 3015, 8110, 2767, 0>>,
     <<4597, 5327, 1680, 2810, 0>>, <<388, 624, 9008, 2852, 0>>, <<7422, 3533, 102, 2896, 0>>,
     <<3394, 8329, 4972, 2939, 0>>, <<8844, 8931, 3628, 2983, 0>>, <<1932, 8914, 6079, 3027, 0>>,
     <<2661, 1504, 2335, 3072, 0>>, <<6550, 9588, 2403, 3117, 0>>, <<7783, 5715, 6295, 3162, 0>>,
     <<1836, 2099, 4019, 3208, 0>>, <<7592, 620, 5584, 3254, 0>>, <<8964, 2833, 999, 3301, 0>>,
     <<6029, 9966, 273, 3348, 0>>, <<5681, 2924, 3417, 3395, 0>>, <<1825, 2294, 438, 3443, 0>>,
     <<5108, 8345, 1345, 3491, 0>>, <<2206, 1035, 6149, 3539, 0>>, <<4670, 9, 4857, 3588, 0>>,
     <<7348, 4606, 7478, 3637, 0>>, <<6380, 3860, 4022, 3687, 0>>, <<6788, 6502, 4497, 3737, 0>>,
     <<9657, 964, 8913, 3787, 0>>, <<8925, 5382, 7277, 3838, 0>>, <<7783, 7597, 9599, 3889, 0>>,
     <<4696, 5159, 5888, 3941, 0>>, <<9053, 5328, 6152, 3993, 0>>, <<6453, 5080, 400, 4046, 0>>,
     <<3627, 1105, 8641, 4098, 0>>, <<3018, 9812, 882, 4152, 0>>, <<7014, 7331, 7134, 4205, 0>>,
     <<1839, 9517, 7404, 4259, 0>>, <<1120, 1948, 1702, 4314, 0>>, <<9128, 9931, 34, 4369, 0>>,
     <<3697, 8506, 2411, 4424, 0>>, <<8832, 2441, 8841, 4479, 0>>, <<7015, 6243, 9331, 4535, 0>>,
     <<1207, 4154, 3891, 4592, 0>>, <<6550, 154, 2529, 4649, 0>>, <<1791, 7968, 5252, 4706, 0>>,
     <<407, 1061, 2071, 4764, 0>>, <<1467, 2645, 2992, 4822, 0>>, <<204, 5680, 8024, 4880, 0>>,
     <<8329, 2874, 7176, 4939, 0>>, <<4078, 6690, 455, 4999, 0>>, <<1996, 9341, 7870, 5058, 0>>,
     <<2470, 2797, 9430, 5118, 0>>, <<1011, 8786, 5141, 5179, 0>>, <<7287, 8794, 5013, 5240, 0>>,
     <<3919, 4071, 9054, 5301, 0>>, <<5035, 5627, 7271, 5363, 0>>, <<4597, 4239, 9673, 5425, 0>>,
     <<4489, 450, 6268, 5488, 0>>, <<2391, 4572, 7063, 5551, 0>>, <<9422, 6686, 2067, 5615, 0>>,
     <<7572, 6648, 1288, 5679, 0>>, <<6915, 4085, 4734, 5743, 0>>, <<2618, 8401, 2412, 5808, 0>>,
     <<1735, 8776, 4331, 5873, 0>>, <<9806, 4169, 499, 5939, 0>>, <<7247, 3322, 923, 6005, 0>>,
     <<5556, 4756, 5611, 6071, 0>>, <<3310, 6777, 4571, 6138, 0>>, <<1987, 7476, 7811, 6205, 0>>,
     <<1589, 4731, 5339, 6273, 0>>, <<6089, 6208, 7162, 6341, 0>>, <<8691, 9364, 3288, 6410, 0>>,
     <<6920, 1447, 3726, 6479, 0>>, <<7526, 9497, 8481, 6548, 0>>, <<1222, 350, 7564, 6618, 0>>,
     <<7256, 635, 980, 6689, 0>>, <<7807, 6782, 8737, 6759, 0>>, <<2221, 5018, 844, 6831, 0>>,
     <<1091, 1369, 7308, 6902, 0>>, <<163, 1664, 8136, 6974, 0>>, <<4105, 1534, 3336, 7047, 0>>,
     <<101, 6416, 2915, 7120, 0>>, <<1310, 1550, 6882, 7193, 0>>, <<168, 1985, 5243, 7267, 0>>,
     <<1540, 2577, 8006, 7341, 0>>, <<5731, 7992, 5178, 7416, 0>>, <<1358, 2708, 6768, 7491, 0>>,
     <<8071, 1012, 2782, 7567, 0>>, <<9145, 7008, 3227, 7643, 0>>, <<3928, 4613, 8112, 7719, 0>>,
     <<163, 7559, 7443, 7796, 0>>, <<6170, 9395, 1228, 7874, 0>>, <<2902, 3491, 9475, 7951, 0>>,
     <<5866, 3033, 2190, 8030, 0>>, <<6932, 1030, 9381, 8108, 0>>, <<5995, 312, 1055, 8188, 0>>,
     <<2539, 3532, 7219, 8267, 0>>, <<7057, 3166, 7881, 8347, 0>>, <<2367, 1518, 3048, 8428, 0>>,
     <<4805, 715, 2727, 8509, 0>>, <<5301, 2714, 6925, 8590, 0>>, <<340, 9300, 5649, 8672, 0>>,
     <<2817, 2086, 8908, 8754, 0>>, <<2769, 2518, 6707, 8837, 0>>, <<8011, 1872, 9054, 8920, 0>>,
     <<4653, 1259, 5956, 9004, 0>>, <<7514, 1621, 7420, 9088, 0>>, <<436, 3738, 3453, 9173, 0>>,
     <<6487, 8222, 4062, 9258, 0>>, <<8065, 5526, 9255, 9343, 0>>, <<6901, 5939, 9038, 9429, 0>>,
     <<3966, 9589, 3418, 9516, 0>>, <<9273, 6443, 2403, 9603, 0>>, <<1587, 6312, 5999, 9690, 0>>,
     <<8044, 8844, 4213, 9778, 0>>, <<3661, 3535, 7053, 9866, 0>>, <<775, 9721, 4524, 9955, 0>>
  >>

LinearToSrgbStep(k) == [l |-> Trim(LinearToSrgbSteps[k]), e |-> 4]

RECURSIVE LastStep(_, _, _)
LastStep(c, lo, hi) ==
  IF lo = hi THEN lo
  ELSE LET mid == (lo + hi + 1) \div 2
       IN  IF Cmp(c, LinearToSrgbStep(mid)) >= 0
           THEN LastStep(c, mid, hi)
           ELSE LastStep(c, lo, mid - 1)

\* int(round(_clamp(_linear_to_srgb(c), 0.0, 1.0) * 255.0)) for c in [0, 1]
linear_to_srgb_255(c) == LastStep(c, 0, 255)

\* limb k of m[j] * v[j]: an entry is split in two limbs
Term(row, a, j, k) ==
  (row[j] % Base) * At(a[j], k) + (row[j] \div Base) * At(a[j], k - 1)

\* m[0] * v[0] + m[1] * v[1] + m[2] * v[2] on limb sequences of length <= n
DotRow(row, a, n) ==
  Norm([k \in 1..(n + 1) |-> Term(row, a, 1, k) + Term(row, a, 2, k) + Term(row, a, 3, k)])

DotLimbs(m, a, e) ==
  [j \in 1..3 |->
     [l |-> DotRow(m[j], a, Max2(Len(a[1]), Max2(Len(a[2]), Len(a[3])))),
      e |-> e + 2]]

DotAt(m, vec, e) == DotLimbs(m, [j \in 1..3 |-> Shift(vec[j], e)], e)

dot3(m, vec) == DotAt(m, vec, Max2(vec[1].e, Max2(vec[2].e, vec[3].e)))

\* (X * 100.0, Y * 100.0, Z * 100.0)
Times100All(xyz) == [j \in 1..3 |-> Times100(xyz[j])]

\* the channels c / 255.0 with the gamma removed
Linearize(rgb) == [j \in 1..3 |-> srgb_to_linear(clamp(rgb[j], 0, 255))]

\* 8-bit sRGB -> XYZ scaled to 0..100
rgb255_to_xyz100(r0, g0, b0) ==
  Times100All(dot3(SRGB_TO_XYZ, Linearize(<<r0, g0, b0>>)))

\* 0.0 <= c <= 1.0
InUnit(c) == Cmp(c, ZeroFix) >= 0 /\ Cmp(c, OneFix) <= 0

\* lines 82-92 for one component: clamp, gamma, scale to 0..255, round, clamp
Encode8(c) ==
  Max2(0, Min2(255, linear_to_srgb_255(clampFix(c, ZeroFix, OneFix))))

\* lines 78-93: the clipped flag and the 8-bit channels of the linear components
FromLinear(lin) ==
  [rgb |-> [j \in 1..3 |-> Encode8(lin[j])],
   clipped |-> \E j \in 1..3 : ~InUnit(lin[j])]

\* XYZ (0..100) -> 8-bit sRGB and the clipped flag
xyz100_to_rgb255(X0, Y0, Z0) ==
  FromLinear(dot3(XYZ_TO_SRGB, <<Div100(X0), Div100(Y0), Div100(Z0)>>))

Max3(a, c, d) == Max2(a, Max2(c, d))

Min3(a, c, d) == Min2(a, Min2(c, d))

\* colorsys.rgb_to_hsv on the channels / 255.0, scaled to degrees and percent:
\* each component an exact fraction <<numerator, denominator>>
rgb255_to_hsv_deg(r0, g0, b0) ==
  LET r8 == clamp(r0, 0, 255)
      g8 == clamp(g0, 0, 255)
      b8 == clamp(b0, 0, 255)
      maxc == Max3(r8, g8, b8)
      minc == Min3(r8, g8, b8)
      rangec == maxc - minc
      \* rangec times bc - gc, 2.0 + rc - bc, 4.0 + gc - rc
      h6 == IF r8 = maxc THEN g8 - b8
            ELSE IF g8 = maxc THEN 2 * rangec + (b8 - r8)
            ELSE 4 * rangec + (r8 - g8)
  IN  IF minc = maxc
      THEN [h |-> <<0, 1>>, s |-> <<0, 1>>, v |-> <<100 * maxc, 255>>]
      ELSE [h |-> <<(60 * h6) % (360 * rangec), rangec>>,
            s |-> <<100 * rangec, maxc>>,
            v |-> <<100 * maxc, 255>>]

\* int(round(x)) of a fraction
RoundFrac(q) == RoundDiv(q[1], q[2])

\* HSV in whole degrees and percent -> 8-bit sRGB (colorsys.hsv_to_rgb)
hsv_deg_to_rgb255(h_deg, s_perc, v_perc) ==
  LET hh == h_deg % 360
      ss == clamp(s_perc, 0, 100)
      vv == clamp(v_perc, 0, 100)
      i == hh \div 60                       \* int(h * 6.0)
      f == hh % 60                          \* (h * 6.0 - i) * 60
      \* the channels in units of 1 / 600000
      cv == vv * 6000
      cp == vv * (6000 - 60 * ss)
      cq == vv * (6000 - ss * f)
      ct == vv * (6000 - ss * (60 - f))
      to8(c) == Max2(0, Min2(255, RoundDiv(255 * c, 600000)))
      rgb == IF ss = 0 THEN <<cv, cv, cv>>
             ELSE IF i = 0 THEN <<cv, ct, cp>>
             ELSE IF i = 1 THEN <<cq, cv, cp>>
             ELSE IF i = 2 THEN <<cp, cv, ct>>
             ELSE IF i = 3 THEN <<cp, cq, cv>>
             ELSE IF i = 4 THEN <<ct, cp, cv>>
             ELSE <<cv, cp, cq>>
  IN  <<to8(rgb[1]), to8(rgb[2]), to8(rgb[3])>>

\* lines 120-121
HsvOf(res) ==
  [hsv |-> rgb255_to_hsv_deg(res.rgb[1], res.rgb[2], res.rgb[3]),
   clipped |-> res.clipped]

\* the 8-bit channels of the linear components with the gamma step left out
FromLinear_noGamma(lin) ==
  [rgb |-> [j \in 1..3 |-> RoundFix(Scale(clampFix(lin[j], ZeroFix, OneFix), 255))],
   clipped |-> \E j \in 1..3 : ~InUnit(lin[j])]

\* a direct XYZ -> HSV path that takes the linear components for the sRGB ones
xyz100_to_hsv_deg_linear(X0, Y0, Z0) ==
  HsvOf(FromLinear_noGamma(dot3(XYZ_TO_SRGB, <<Div100(X0), Div100(Y0), Div100(Z0)>>)))

\* XYZ -> HSV via sRGB
xyz100_to_hsv_deg(X0, Y0, Z0) == HsvOf(xyz100_to_rgb255(X0, Y0, Z0))

\* HSV -> XYZ via sRGB
XyzOf(rgb) == rgb255_to_xyz100(rgb[1], rgb[2], rgb[3])

hsv_deg_to_xyz100(h_deg, s_perc, v_perc) ==
  XyzOf(hsv_deg_to_rgb255(h_deg, s_perc, v_perc))

HexUpper == <<"0", "1", "2", "3", "4", "5", "6", "7",
              "8", "9", "A", "B", "C", "D", "E", "F">>

HexLower == <<"0", "1", "2", "3", "4", "5", "6", "7",
              "8", "9", "a", "b", "c", "d", "e", "f">>

IsHexDigit(ch) == \E i \in 1..16 : HexUpper[i] = ch \/ HexLower[i] = ch

DigitVal(ch) == (CHOOSE i \in 1..16 : HexUpper[i] = ch \/ HexLower[i] = ch) - 1

\* f"{n:02X}" for n in 0..255
Hex2(n) == <<HexUpper[(n \div 16) + 1], HexUpper[(n % 16) + 1]>>

rgb_to_hex(r0, g0, b0) == <<"#">> \o Hex2(r0) \o Hex2(g0) \o Hex2(b0)

Whitespace == {" "}

RECURSIVE LStrip(_, _)
LStrip(str, chars) ==
  IF str # <<>> /\ Head(str) \in chars THEN LStrip(Tail(str), chars) ELSE str

RECURSIVE RStrip(_, _)
RStrip(str, chars) ==
  IF str # <<>> /\ str[Len(str)] \in chars
  THEN RStrip(SubSeq(str, 1, Len(str) - 1), chars)
  ELSE str

Strip(str) == RStrip(LStrip(str, Whitespace), Whitespace)

\* int(str, 16) of a two-character slice over the characters of the model
\* (no sign, no underscore, no 0x): blanks around the digits are skipped,
\* anything else than hex digits raises ValueError (ok = FALSE)
Digits16(t) ==
  IF t # <<>> /\ \A i \in 1..Len(t) : IsHexDigit(t[i])
  THEN [ok |-> TRUE,
        val |-> IF Len(t) = 1 THEN DigitVal(t[1])
                ELSE 16 * DigitVal(t[1]) + DigitVal(t[2])]
  ELSE [ok |-> FALSE, val |-> 0]

int16(str) == Digits16(Strip(str))

Channels(r16, g16, b16) ==
  IF r16.ok /\ g16.ok /\ b16.ok
  THEN [ok |-> TRUE, rgb |-> <<r16.val, g16.val, b16.val>>]
  ELSE [ok |-> FALSE, rgb |-> <<>>]

\* lines 136-141 on hs, the string stripped
ParseHex(hs) ==
  IF Len(hs) # 6 THEN [ok |-> TRUE, rgb |-> <<0, 0, 0>>]
  ELSE Channels(int16(SubSeq(hs, 1, 2)), int16(SubSeq(hs, 3, 4)),
                int16(SubSeq(hs, 5, 6)))

\* ok = FALSE: the call raised ValueError
hex_to_rgb(hex_str) == ParseHex(LStrip(Strip(hex_str), {"#"}))

-----------------------------------------------------------------------------
(* src/app.py *)

\* the D65 box of the XYZ sliders, in units of 10^-4
X_MAX == 950470

Y_MAX == 1000000

Z_MAX == 1088830

\* a session value of X, Y or Z (units of 10^-4) as a number
FromUnits(u) == [l |-> Norm(<<u>>), e |-> 1]

\* round(min(max(float(value), min_value), max_value), 3), in units of 10^-4
clamp_round(value, min_value, max_value) ==
  10 * RoundFix(Scale(clampFix(value, FromUnits(min_value), FromUnits(max_value)),
                      1000))

\* lines 106-112: the derived h, s, v, X, Y, Z and hex are stored
RgbAssign(st, hsv, xyz) ==
  [st EXCEPT !.h = RoundFrac(hsv.h),
             !.s = RoundFrac(hsv.s),
             !.v = RoundFrac(hsv.v),
             !.X = clamp_round(xyz[1], 0, X_MAX),
             !.Y = clamp_round(xyz[2], 0, Y_MAX),
             !.Z = clamp_round(xyz[3], 0, Z_MAX),
             !.hex = rgb_to_hex(st.r, st.g, st.b)]

\* lines 106-111, without line 112: the hex string is left as it was
RgbAssign_keepHex(st, hsv, xyz) ==
  [st EXCEPT !.h = RoundFrac(hsv.h),
             !.s = RoundFrac(hsv.s),
             !.v = RoundFrac(hsv.v),
             !.X = clamp_round(xyz[1], 0, X_MAX),
             !.Y = clamp_round(xyz[2], 0, Y_MAX),
             !.Z = clamp_round(xyz[3], 0, Z_MAX)]

\* the rgb branch without line 112
RgbBranch_keepHex(st) ==
  RgbAssign_keepHex(st, rgb255_to_hsv_deg(st.r, st.g, st.b),
                    rgb255_to_xyz100(st.r, st.g, st.b))

\* the rgb branch with the channels handed to rgb255_to_hsv_deg in the order b, g, r
RgbBranch_bgr(st) ==
  RgbAssign(st, rgb255_to_hsv_deg(st.b, st.g, st.r),
            rgb255_to_xyz100(st.r, st.g, st.b))

\* the rgb branch deriving X, Y, Z from the session's h, s, v before it has
\* assigned them
RgbBranch_staleXyz(st) ==
  RgbAssign(st, rgb255_to_hsv_deg(st.r, st.g, st.b),
            hsv_deg_to_xyz100(st.h, st.s, st.v))

\* the rgb branch of the pass, lines 103-112
RgbBranch(st) ==
  RgbAssign(st, rgb255_to_hsv_deg(st.r, st.g, st.b),
            rgb255_to_xyz100(st.r, st.g, st.b))

\* lines 119-125: the derived r, g, b, X, Y, Z and hex are stored
HsvAssign(st, rgb, xyz) ==
  [st EXCEPT !.r = rgb[1],
             !.g = rgb[2],
             !.b = rgb[3],
             !.X = clamp_round(xyz[1], 0, X_MAX),
             !.Y = clamp_round(xyz[2], 0, Y_MAX),
             !.Z = clamp_round(xyz[3], 0, Z_MAX),
             !.hex = rgb_to_hex(rgb[1], rgb[2], rgb[3])]

\* line 118: X, Y, Z come from the derived r, g, b
HsvDerive(st, rgb) == HsvAssign(st, rgb, XyzOf(rgb))

\* h, s, v written back from the derived r, g, b
Rederive(st, hsv) ==
  [st EXCEPT !.h = RoundFrac(hsv.h), !.s = RoundFrac(hsv.s), !.v = RoundFrac(hsv.v)]

\* the hsv branch writing h, s, v back from the derived r, g, b
HsvBranch_rederive(st) ==
  Rederive(HsvDerive(st, hsv_deg_to_rgb255(st.h, st.s, st.v)),
           rgb255_to_hsv_deg(hsv_deg_to_rgb255(st.h, st.s, st.v)[1],
                             hsv_deg_to_rgb255(st.h, st.s, st.v)[2],
                             hsv_deg_to_rgb255(st.h, st.s, st.v)[3]))

\* the hsv branch of the pass, lines 114-125
HsvBranch(st) == HsvDerive(st, hsv_deg_to_rgb255(st.h, st.s, st.v))

\* lines 131-141: the derived r, g, b, h, s, v and hex are stored, the flags or-ed
XyzAssign(st, res, viaHsv) ==
  [st EXCEPT !.r = res.rgb[1],
             !.g = res.rgb[2],
             !.b = res.rgb[3],
             !.h = RoundFrac(viaHsv.hsv.h),
             !.s = RoundFrac(viaHsv.hsv.s),
             !.v = RoundFrac(viaHsv.hsv.v),
             !.hex = rgb_to_hex(res.rgb[1], res.rgb[2], res.rgb[3]),
             !.clip_warning = res.clipped \/ viaHsv.clipped]

\* the xyz branch of the pass, lines 127-141
XyzBranch(st) ==
  XyzAssign(st,
            xyz100_to_rgb255(FromUnits(st.X), FromUnits(st.Y), FromUnits(st.Z)),
            xyz100_to_hsv_deg(FromUnits(st.X), FromUnits(st.Y), FromUnits(st.Z)))

\* lines 96-98: X, Y, Z are clamped to the D65 box and rounded
Coerce(st) ==
  [st EXCEPT !.X = clamp_round(FromUnits(st.X), 0, X_MAX),
             !.Y = clamp_round(FromUnits(st.Y), 0, Y_MAX),
             !.Z = clamp_round(FromUnits(st.Z), 0, Z_MAX)]

\* lines 101-141: the branch of the source view
Branch(st) ==
  IF st.source_model = "rgb" THEN RgbBranch(st)
  ELSE IF st.source_model = "hsv" THEN HsvBranch(st)
  ELSE XyzBranch(st)

\* line 100: the local clip_warning starts FALSE
ResetFlag(st) == [st EXCEPT !.clip_warning = FALSE]

\* the pass without line 100: the flag of the run before is kept
SyncPass_keepFlag(st) == Branch(Coerce(st))

\* the script from line 96 on
SyncPass(st) == Branch(ResetFlag(Coerce(st)))

Cur ==
  [r |-> r, g |-> g, b |-> b, h |-> h, s |-> s, v |-> v, X |-> X, Y |-> Y,
   Z |-> Z, hex |-> hex, source_model |-> source_model,
   clip_warning |-> clip_warning]

Store(st) ==
  /\ r' = st.r /\ g' = st.g /\ b' = st.b
  /\ h' = st.h /\ s' = st.s /\ v' = st.v
  /\ X' = st.X /\ Y' = st.Y /\ Z' = st.Z
  /\ hex' = st.hex
  /\ source_model' = st.source_model
  /\ clip_warning' = st.clip_warning

\* one run of the script on the session values st
Run(st) ==
  /\ input' = st
  /\ before' = Cur
  /\ Store(SyncPass(st))
  /\ UNCHANGED <<fn, arg, ret, pc>>

\* the values the widgets of the model are set to
ChanVals == {0, 1, 128}

HueVals == {200, 360}

PercVals == {0, 1, 50}

XVals == {0, 412456}

YVals == {0, 1000000}

ZVals == {19334, 1088830}

HexVals ==
  { <<"#", "f", "f", "f", "f", "f", "f">>,
    <<"#", "0", "0", "8", "0", "f", "e">> }

\* lines 79-94: the session is initialised to pure red
Initialized ==
  RgbAssign([r |-> 255, g |-> 0, b |-> 0, h |-> 0, s |-> 0, v |-> 0,
             X |-> 0, Y |-> 0, Z |-> 0, hex |-> <<>>, source_model |-> "rgb",
             clip_warning |-> FALSE],
            rgb255_to_hsv_deg(255, 0, 0), rgb255_to_xyz100(255, 0, 0))

\* the first run of the script: the initialisation, then the pass
FirstRun == SyncPass(Initialized)

InitSession ==
  /\ r = FirstRun.r /\ g = FirstRun.g /\ b = FirstRun.b
  /\ h = FirstRun.h /\ s = FirstRun.s /\ v = FirstRun.v
  /\ X = FirstRun.X /\ Y = FirstRun.Y /\ Z = FirstRun.Z
  /\ hex = FirstRun.hex
  /\ source_model = FirstRun.source_model
  /\ clip_warning = FirstRun.clip_warning
  /\ input = Initialized
  /\ before = Initialized
  /\ edits = 0

Init ==
  /\ InitSession
  /\ fn = "none" /\ arg = <<>> /\ ret = <<>> /\ pc = "idle"

\* a slider or number box of the RGB column: the widget's value is written to
\* its key, _set_source_rgb runs, then the script
OnRgbChange ==
  \E key \in {"r", "g", "b"}, val \in ChanVals :
    /\ edits < MaxEdits
    /\ edits' = edits + 1
    /\ Run([Cur EXCEPT ![key] = val, !.source_model = "rgb"])

OnHsvChange ==
  \E key \in {"h", "s", "v"} :
    \E val \in (IF key = "h" THEN HueVals ELSE PercVals) :
      /\ edits < MaxEdits
      /\ edits' = edits + 1
      /\ Run([Cur EXCEPT ![key] = val, !.source_model = "hsv"])

OnXyzChange ==
  \E key \in {"X", "Y", "Z"} :
    \E val \in (IF key = "X" THEN XVals ELSE IF key = "Y" THEN YVals ELSE ZVals) :
      /\ edits < MaxEdits
      /\ edits' = edits + 1
      /\ Run([Cur EXCEPT ![key] = val, !.source_model = "xyz"])

\* _on_hex_change: the source is set, then r, g, b unless hex_to_rgb raised
on_hex_change(st, res) ==
  IF res.ok
  THEN [st EXCEPT !.source_model = "rgb",
                  !.r = res.rgb[1], !.g = res.rgb[2], !.b = res.rgb[3]]
  ELSE [st EXCEPT !.source_model = "rgb"]

\* the colour picker: the picked string is written to hex, _on_hex_change
\* runs, then the script
OnHexChange ==
  \E val \in HexVals :
    /\ edits < MaxEdits
    /\ edits' = edits + 1
    /\ Run(on_hex_change([Cur EXCEPT !.hex = val], hex_to_rgb(val)))

\* the script runs again with nothing edited
Rerun ==
  /\ Run(Cur)
  /\ UNCHANGED edits

Next == OnRgbChange \/ OnHsvChange \/ OnXyzChange \/ OnHexChange \/ Rerun

Spec == Init /\ [][Next]_vars

-----------------------------------------------------------------------------
(* The library functions applied on their own *)

ProbeChan == {0, 1, 128, 254, 255}

XProbes == {0, 412456, X_MAX}

YProbes == {0, 212673, Y_MAX}

ZProbes == {0, 19334, Z_MAX}

HexAlphabet == {"#", " ", "1", "2", "z"}

HexProbes == UNION {[1..n -> HexAlphabet] : n \in 0..MaxHexLen}

InitFn ==
  /\ InitSession
  /\ pc = "call"
  /\ ret = <<>>
  /\ \/ fn = "xyz100_to_rgb255" /\ arg \in XProbes \X YProbes \X ZProbes
     \/ fn = "round_trip" /\ arg \in ProbeChan \X ProbeChan \X ProbeChan
     \/ fn = "hex_to_rgb" /\ arg \in HexProbes

Return(val) ==
  /\ ret' = val
  /\ pc' = "return"
  /\ UNCHANGED <<r, g, b, h, s, v, X, Y, Z, hex, source_model, clip_warning,
                 input, before, edits, fn, arg>>

Call_xyz100_to_rgb255 ==
  /\ pc = "call" /\ fn = "xyz100_to_rgb255"
  /\ Return(xyz100_to_rgb255(FromUnits(arg[1]), FromUnits(arg[2]), FromUnits(arg[3])))

\* xyz100_to_rgb255(*rgb255_to_xyz100(r, g, b))
RgbOf(xyz) == xyz100_to_rgb255(xyz[1], xyz[2], xyz[3])

Call_round_trip ==
  /\ pc = "call" /\ fn = "round_trip"
  /\ Return(RgbOf(rgb255_to_xyz100(arg[1], arg[2], arg[3])))

Call_hex_to_rgb ==
  /\ pc = "call" /\ fn = "hex_to_rgb"
  /\ Return(hex_to_rgb(arg))

NextFn == Call_xyz100_to_rgb255 \/ Call_round_trip \/ Call_hex_to_rgb

SpecFn == InitFn /\ [][NextFn]_vars

-----------------------------------------------------------------------------
(* The claims *)

\* |n / d - x| <= 1 for a fraction <<n, d>> and an integer x
Within1(q, x) == Abs(q[1] - x * q[2]) <= q[2]

\* the same for two hues, compared on the circle
HueWithin1(q, x) ==
  \/ Within1(q, x)
  \/ 360 * q[2] - Abs(q[1] - x * q[2]) <= q[2]

\* rgb255_to_hsv_deg of the stored r, g, b
StoredRgbAsHsv == rgb255_to_hsv_deg(r, g, b)

\* converting the stored r, g, b reproduces the stored h, s, v within +-1
HsvAgrees ==
  /\ HueWithin1(StoredRgbAsHsv.h, h)
  /\ Within1(StoredRgbAsHsv.s, s)
  /\ Within1(StoredRgbAsHsv.v, v)

\* the linear components of the stored X, Y, Z
StoredLinear ==
  dot3(XYZ_TO_SRGB,
       <<Div100(FromUnits(X)), Div100(FromUnits(Y)), Div100(FromUnits(Z))>>)

SomeLinearOutside ==
  \E i \in 1..3 : Cmp(StoredLinear[i], ZeroFix) < 0 \/ Cmp(StoredLinear[i], OneFix) > 0

D65 == <<X_MAX, Y_MAX, Z_MAX>>

Returned(name) == pc = "return" /\ fn = name

\* C1: xyz100_to_rgb255 of the D65 white point (95.047, 100, 108.883) returns
\* (255, 255, 255) and the clipped flag FALSE.
C1_WhitePointInGamut ==
  (Returned("xyz100_to_rgb255") /\ arg = D65)
    => (ret.rgb = <<255, 255, 255>> /\ ~ret.clipped)

\* C2: for every r, g, b in 0..255, xyz100_to_rgb255(rgb255_to_xyz100(r, g, b))
\* returns each channel within +-1 of the input and the clipped flag FALSE.
C2_RoundTripInGamut ==
  Returned("round_trip")
    => /\ \A i \in 1..3 : Abs(ret.rgb[i] - arg[i]) <= 1
       /\ ~ret.clipped

\* after strip and lstrip('#'): not six characters, or a character that is no
\* hex digit
Malformed(str) ==
  LET hs == LStrip(Strip(str), {"#"})
  IN  Len(hs) # 6 \/ \E i \in 1..Len(hs) : ~IsHexDigit(hs[i])

\* C3: hex_to_rgb never fails: every string yields a value, and a malformed one
\* (wrong length, or six characters that are not all hex digits) yields black.
C3_HexNeverFails ==
  Returned("hex_to_rgb")
    => /\ ret.ok
       /\ Malformed(arg) => ret.rgb = <<0, 0, 0>>

\* C4: a pass never overwrites the fields of its source view with derived
\* values: r, g, b (source rgb) and h, s, v (source hsv) are the values the pass
\* started from, X, Y, Z (source xyz) those values clamped to the D65 box and
\* rounded to 3 decimals.
C4_SourceViewKept ==
  /\ source_model = "rgb" => <<r, g, b>> = <<input.r, input.g, input.b>>
  /\ source_model = "hsv" => <<h, s, v>> = <<input.h, input.s, input.v>>
  /\ source_model = "xyz" =>
       /\ X = clamp_round(FromUnits(input.X), 0, X_MAX)
       /\ Y = clamp_round(FromUnits(input.Y), 0, Y_MAX)
       /\ Z = clamp_round(FromUnits(input.Z), 0, Z_MAX)

\* an HSV edit to saturation 0 with hue 200: the grey r = g = b has hue 0
C4_Witness ==
  /\ source_model = "hsv" /\ input.h = 200 /\ input.s = 0
  /\ h = 200 /\ s = 0 /\ r = g /\ g = b

\* C5: after every pass the hex string is rgb_to_hex of the stored r, g, b:
\* '#' and two uppercase hex digits per channel.
C5_HexOfRgb ==
  /\ hex = rgb_to_hex(r, g, b)
  /\ Len(hex) = 7
  /\ hex[1] = "#"
  /\ \A i \in 2..7 : \E j \in 1..16 : hex[i] = HexUpper[j]
  /\ 16 * DigitVal(hex[2]) + DigitVal(hex[3]) = r
  /\ 16 * DigitVal(hex[4]) + DigitVal(hex[5]) = g
  /\ 16 * DigitVal(hex[6]) + DigitVal(hex[7]) = b

\* the picker handed in a lowercase string, the pass stored it in uppercase
C5_Witness ==
  /\ input.hex = <<"#", "0", "0", "8", "0", "f", "e">>
  /\ hex = <<"#", "0", "0", "8", "0", "F", "E">>
  /\ <<r, g, b>> = <<0, 128, 254>>

\* C6: after every pass the stored hue lies in [0, 360).
C6_HueBelow360 == h >= 0 /\ h < 360

\* C7: after a pass the flag is FALSE when the source is rgb or hsv, also when
\* the pass before raised it; when the source is xyz it is TRUE exactly when a
\* linear component of the stored X, Y, Z lies outside [0, 1].
C7_ClipFlag ==
  /\ source_model \in {"rgb", "hsv"} => clip_warning = FALSE
  /\ source_model = "xyz" => (clip_warning <=> SomeLinearOutside)

\* an RGB edit right after an XYZ edit that raised the flag
C7_Witness ==
  /\ before.source_model = "xyz" /\ before.clip_warning
  /\ source_model = "rgb" /\ ~clip_warning

\* C8, as stated: after every pass that leaves the flag FALSE, converting the
\* stored r, g, b reproduces the stored h, s, v within +-1 (hue on the circle).
C8_ViewsAgree == ~clip_warning => HsvAgrees

\* C8, amended: the agreement holds in the direction of the derivation.  After
\* a pass with source rgb or xyz that leaves the flag FALSE, converting the
\* stored r, g, b reproduces the stored h, s, v within +-1; after a pass with
\* source hsv, hsv_deg_to_rgb255 of the stored h, s, v is the stored r, g, b and
\* the value component agrees within +-1 (hue and saturation need not).
C8_ViewsAgreeInDirection ==
  /\ (source_model \in {"rgb", "xyz"} /\ ~clip_warning) => HsvAgrees
  /\ source_model = "hsv" =>
       /\ hsv_deg_to_rgb255(h, s, v) = <<r, g, b>>
       /\ Within1(StoredRgbAsHsv.v, v)

\* an HSV edit to value 0 with hue 200: black has hue 0
C8_Witness ==
  /\ source_model = "hsv" /\ h = 200 /\ v = 0
  /\ <<r, g, b>> = <<0, 0, 0>>
  /\ ~HsvAgrees

\* C9: a pass with source rgb on the r, g, b that a pass with source rgb has
\* just stored leaves the whole state as it was.
C9_RgbPassIdempotent ==
  (/\ before.source_model = "rgb"
   /\ input.source_model = "rgb"
   /\ <<input.r, input.g, input.b>> = <<before.r, before.g, before.b>>)
    => Cur = before

\* green dialled in after an XYZ edit or not, then the pass run once more
C9_Witness ==
  /\ before.source_model = "rgb" /\ input.source_model = "rgb"
  /\ <<input.r, input.g, input.b>> = <<before.r, before.g, before.b>>
  /\ <<r, g, b>> = <<0, 128, 0>>
  /\ edits = MaxEdits

\* C10: after a pass with source xyz the stored h, s, v are the rounded
\* rgb255_to_hsv_deg of the stored r, g, b, and the flag is the one
\* xyz100_to_rgb255 reports for the stored X, Y, Z.
C10_XyzHsvFromRgb ==
  source_model = "xyz" =>
    /\ h = RoundFrac(StoredRgbAsHsv.h)
    /\ s = RoundFrac(StoredRgbAsHsv.s)
    /\ v = RoundFrac(StoredRgbAsHsv.v)
    /\ clip_warning = xyz100_to_rgb255(FromUnits(X), FromUnits(Y), FromUnits(Z)).clipped

\* an XYZ edit whose colour is clipped to a blue between 0 and 255
C10_Witness ==
  /\ source_model = "xyz" /\ clip_warning
  /\ b > 0 /\ b < 255

====
